---------------------------- MODULE Spec2Model ----------------------------
(***************************************************************************)
(* Thermostat.py: the Off/Heat/Cool state machine, the two PWM LEDs, the   *)
(* sensor cache, the display loop thread and the three button callbacks.   *)
(*                                                                         *)
(* Temperatures are fixed-point: hundredths of a degree (7196 is 71.96 F). *)
(* The sensor delivers hundredths of a degree Celsius.                     *)
(*                                                                         *)
(* Two threads share the state: the daemon thread running display_loop     *)
(* and the thread that runs the button callbacks.  A step of the model is  *)
(* at most one access to shared data (mode, set_point, last_temp, an LED,  *)
(* the display, the serial port) with the thread-local work around it.     *)
(***************************************************************************)
EXTENDS Integers, Sequences, FiniteSets, TLC

VARIABLES
    mode,       \* thermo.current_state.id
    set_point,  \* thermo.set_point
    last_temp,  \* module global last_temp
    redLED,     \* what redLED was last told: "off", "pulse", "on"
    blueLED,    \* what blueLED was last told
    lcd,        \* line 2 on the display
    ser,        \* the last line written to the serial port
    counter,    \* display_loop local
    toggle,     \* display_loop local
    dl_pc,      \* where the display loop thread is
    dl_rd,      \* read_fahrenheit in that thread: what the sensor read gave, until it returns
    dl_temp,    \* the local temp of display_loop, control_led or send_uart in that thread
    dl_cmd,     \* the LED command control_led has chosen in that thread
    cb_pc,      \* where the button callback thread is
    cb_rd,      \* read_fahrenheit in the callback thread: what the sensor read gave
    cb_temp,    \* control_led local temp in the callback thread
    cb_cmd,     \* the LED command control_led has chosen in the callback thread
    inc_reg,    \* <<v>>: btn_inc has loaded v for its += and not stored yet
    dec_reg,    \* <<v>>: btn_dec has loaded v for its -= and not stored yet
    nToggle,    \* history: toggle events handled to completion
    nInc,       \* history: increase events handled to completion
    nDec,       \* history: decrease events handled to completion
    emitted,    \* history: the ticks during which send_uart called ser.write
    ser_err,    \* history: a ser.write of the display loop thread has raised
    dl_seen,    \* history: the events handled when control_led got its temperature
    main_pc,    \* where the main thread is
    ser_open,   \* the serial port is open
    cleanup     \* history: the cleanup calls the main thread has made, in order

vars == <<mode, set_point, last_temp, redLED, blueLED, lcd, ser, counter, toggle,
          dl_pc, dl_rd, dl_temp, dl_cmd, cb_pc, cb_rd, cb_temp, cb_cmd, inc_reg, dec_reg,
          nToggle, nInc, nDec, emitted, ser_err, dl_seen, main_pc, ser_open, cleanup>>

shared   == <<mode, set_point, last_temp, redLED, blueLED, lcd, ser>>
dl_hist  == <<ser_err, dl_seen>>
dl_vars  == <<counter, toggle, dl_pc, dl_rd, dl_temp, dl_cmd, emitted, dl_hist>>
cb_vars  == <<cb_pc, cb_rd, cb_temp, cb_cmd, nToggle>>
sp_vars  == <<inc_reg, dec_reg, nInc, nDec>>
main_vars == <<main_pc, ser_open, cleanup>>

---------------------------------------------------------------------------
\* Bounds of the model.
MaxTicks     == 1
MaxPresses   == 4
LongTicks    == 30
LongPresses  == 3
AsyncTicks   == 1
AsyncPresses == 3
ShutTicks    == 1
ShutPresses  == 3
LiveTicks    == 2
LivePresses  == 3

\* Program constants.
DefaultSetPoint == 72
FallbackTemp    == 7200
UartPeriod      == 30
FlipPeriod      == 5

\* What thSensor.temperature can deliver (hundredths of a degree Celsius):
\* 22.20 C = 71.96 F and 23.00 C = 73.40 F.
SensorC  == {2220, 2300}
\* The outcomes of one read of thSensor.temperature: a value, or OSError.
OSError  == [ok |-> FALSE, c |-> 0]
NoRead   == [ok |-> FALSE, c |-> -1]
Sensor   == {[ok |-> TRUE, c |-> c] : c \in SensorC} \cup {OSError}

---------------------------------------------------------------------------
\* Pure functions.

\* (c * 9/5) + 32
CtoF(c) == (c * 9) \div 5 + 3200

\* math.floor
floor(h) == h \div 100

\* One fractional digit by cutting the second one off.
Fmt1_truncating(h) == LET t == h \div 10
                      IN  ToString(t \div 10) \o "." \o ToString(t % 10)

\* f"{temp:.1f}": round to the nearest tenth, one fractional digit.  (No value
\* of the model lies halfway between two tenths.)
Fmt1(h) == LET t == (h + 5) \div 10
           IN  ToString(t \div 10) \o "." \o ToString(t % 10)

\* str.upper on a state id
upper(m) == CASE m = "off" -> "OFF" [] m = "heat" -> "HEAT" [] m = "cool" -> "COOL"

\* A ring that leaves Heat for Off.
cycle_skips_cool(m) == CASE m = "off" -> "heat" [] m = "heat" -> "off" [] m = "cool" -> "off"

\* An event with no transition out of cool.
cycle_sources_no_cool == {"off", "heat"}

\* cycle = off.to(heat) | heat.to(cool) | cool.to(off): the states the event
\* has a transition from
cycle_sources == {"off", "heat", "cool"}

\* cycle = off.to(heat) | heat.to(cool) | cool.to(off)
cycle(m) == CASE m = "off" -> "heat" [] m = "heat" -> "cool" [] m = "cool" -> "off"

\* line2 of display_loop
Line2(tg, temp, m, sp) ==
    IF tg THEN "Temp:" \o Fmt1(temp) \o "F"
          ELSE upper(m) \o " " \o ToString(sp) \o "F"

\* msg of send_uart
UartMsg(m, temp, sp) == m \o "," \o Fmt1(temp) \o "," \o ToString(sp) \o "\n"

\* The comparisons taken with equality on the pulsing side.
control_led_inclusive(m, t, sp) ==
    LET temp == floor(t)
    IN  IF m = "heat"
        THEN IF temp <= sp THEN "red_pulse" ELSE "red_on"
        ELSE IF m = "cool"
             THEN IF temp >= sp THEN "blue_pulse" ELSE "blue_on"
             ELSE "none"

\* The branch control_led takes, given what read_fahrenheit returned: which
\* LED it drives and how.
control_led(m, t, sp) ==
    LET temp == floor(t)
    IN  IF m = "heat"
        THEN IF temp < sp THEN "red_pulse" ELSE "red_on"
        ELSE IF m = "cool"
             THEN IF temp > sp THEN "blue_pulse" ELSE "blue_on"
             ELSE "none"

\* A steady-on command that toggles the red LED.
RedAfter_toggles(cmd) ==
    CASE cmd = "red_pulse" -> "pulse"
      [] cmd = "red_on" -> IF redLED = "on" THEN "off" ELSE "on"
      [] OTHER -> redLED

\* The effect of the chosen command on the two LEDs.
RedAfter(cmd)  == CASE cmd = "red_pulse" -> "pulse" [] cmd = "red_on" -> "on"
                    [] OTHER -> redLED
BlueAfter(cmd) == CASE cmd = "blue_pulse" -> "pulse" [] cmd = "blue_on" -> "on"
                    [] OTHER -> blueLED

\* A failed read that puts the fallback back into last_temp.
read_fahrenheit_resets(r) == IF r.ok THEN CtoF(r.c) ELSE FallbackTemp

\* read_fahrenheit, lines 101-105: last_temp after the sensor read gave r.
\* Line 106 then returns whatever last_temp holds.
read_fahrenheit(r) == IF r.ok THEN CtoF(r.c) ELSE last_temp

---------------------------------------------------------------------------
Init ==
    /\ mode = "off"
    /\ set_point = DefaultSetPoint
    /\ last_temp = FallbackTemp
    /\ redLED = "off"
    /\ blueLED = "off"
    /\ lcd = ""
    /\ ser = ""
    /\ counter = 0
    /\ toggle = FALSE
    /\ dl_pc = "l133"
    /\ dl_rd = NoRead
    /\ dl_temp = 0
    /\ dl_cmd = "none"
    /\ cb_pc = "idle"
    /\ cb_rd = NoRead
    /\ cb_temp = 0
    /\ cb_cmd = "none"
    /\ inc_reg = <<>>
    /\ dec_reg = <<>>
    /\ nToggle = 0
    /\ nInc = 0
    /\ nDec = 0
    /\ emitted = {}
    /\ ser_err = FALSE
    /\ dl_seen = 0
    /\ main_pc = "l180"
    /\ ser_open = TRUE
    /\ cleanup = <<>>

---------------------------------------------------------------------------
\* The display loop thread.

\* A read_fahrenheit that lets OSError out, ending the thread.
DlRead_raises ==
    /\ dl_pc = "l133"
    /\ \E r \in Sensor :
         /\ last_temp' = read_fahrenheit(r)
         /\ IF r.ok THEN dl_rd' = r /\ dl_pc' = "l133_ret"
                    ELSE dl_rd' = NoRead /\ dl_pc' = "dead"
    /\ UNCHANGED <<mode, set_point, redLED, blueLED, lcd, ser>>
    /\ UNCHANGED <<counter, toggle, dl_temp, dl_cmd, emitted, cb_vars, sp_vars, dl_hist, main_vars>>

\* line 133, inside read_fahrenheit: lines 101-105
DlRead ==
    /\ dl_pc = "l133"
    /\ \E r \in Sensor : last_temp' = read_fahrenheit(r) /\ dl_rd' = r
    /\ dl_pc' = "l133_ret"
    /\ UNCHANGED <<mode, set_point, redLED, blueLED, lcd, ser>>
    /\ UNCHANGED <<counter, toggle, dl_temp, dl_cmd, emitted, cb_vars, sp_vars, dl_hist, main_vars>>

\* line 133: read_fahrenheit returns last_temp (line 106), assigned to temp
DlReadRet ==
    /\ dl_pc = "l133_ret"
    /\ dl_temp' = last_temp
    /\ dl_rd' = NoRead
    /\ dl_pc' = "l134"
    /\ UNCHANGED <<shared, counter, toggle, dl_cmd, emitted, cb_vars, sp_vars, dl_hist, main_vars>>

\* lines 134-136
DlUpdate ==
    /\ dl_pc = "l134"
    /\ lcd' = Line2(toggle, dl_temp, mode, set_point)
    /\ dl_pc' = "l137"
    /\ UNCHANGED <<mode, set_point, last_temp, redLED, blueLED, ser>>
    /\ UNCHANGED <<counter, toggle, dl_rd, dl_temp, dl_cmd, emitted, cb_vars, sp_vars, dl_hist, main_vars>>

\* The telemetry test taken on the tick number counted from 1.
DlAfterControl_from1 == IF (counter + 1) % UartPeriod = 0 THEN "l123" ELSE "l141"

\* line 139, a test of the local counter: where the loop goes after lines 137-138
DlAfterControl == IF counter % UartPeriod = 0 THEN "l123" ELSE "l141"

\* control_led run again in heat only.
DlCheck_heat_only ==
    /\ dl_pc = "l137"
    /\ dl_pc' = IF mode = "heat" THEN "l109" ELSE DlAfterControl
    /\ dl_temp' = 0
    /\ UNCHANGED <<shared, counter, toggle, dl_rd, dl_cmd, emitted, cb_vars, sp_vars, dl_hist, main_vars>>

\* line 137
DlCheck ==
    /\ dl_pc = "l137"
    /\ dl_pc' = IF mode \in {"heat", "cool"} THEN "l109" ELSE DlAfterControl
    /\ dl_temp' = 0
    /\ UNCHANGED <<shared, counter, toggle, dl_rd, dl_cmd, emitted, cb_vars, sp_vars, dl_hist, main_vars>>

\* line 109, inside read_fahrenheit: lines 101-105
DlClRead ==
    /\ dl_pc = "l109"
    /\ \E r \in Sensor : last_temp' = read_fahrenheit(r) /\ dl_rd' = r
    /\ dl_pc' = "l109_ret"
    /\ UNCHANGED <<mode, set_point, redLED, blueLED, lcd, ser>>
    /\ UNCHANGED <<counter, toggle, dl_temp, dl_cmd, emitted, cb_vars, sp_vars, dl_hist, main_vars>>

\* line 109: read_fahrenheit returns last_temp (line 106)
DlClReadRet ==
    /\ dl_pc = "l109_ret"
    /\ dl_temp' = last_temp
    /\ dl_rd' = NoRead
    /\ dl_seen' = nToggle + nInc + nDec
    /\ dl_pc' = "l111"
    /\ UNCHANGED <<shared, counter, toggle, dl_cmd, emitted, ser_err, cb_vars, sp_vars, main_vars>>

\* lines 109-117: floor, and the tests of current_state.id and set_point
DlClBranch ==
    /\ dl_pc = "l111"
    /\ dl_cmd' = control_led(mode, dl_temp, set_point)
    /\ dl_temp' = 0
    /\ dl_pc' = "l113"
    /\ UNCHANGED <<shared, counter, toggle, dl_rd, emitted, cb_vars, sp_vars, dl_hist, main_vars>>

\* lines 113, 115, 118, 120: the LED call of the branch taken
DlClDrive ==
    /\ dl_pc = "l113"
    /\ redLED' = RedAfter(dl_cmd)
    /\ blueLED' = BlueAfter(dl_cmd)
    /\ dl_cmd' = "none"
    /\ dl_seen' = 0
    /\ dl_pc' = DlAfterControl
    /\ UNCHANGED <<mode, set_point, last_temp, lcd, ser>>
    /\ UNCHANGED <<counter, toggle, dl_rd, dl_temp, emitted, ser_err, cb_vars, sp_vars, main_vars>>

\* line 123, inside read_fahrenheit: lines 101-105
DlUartRead ==
    /\ dl_pc = "l123"
    /\ \E r \in Sensor : last_temp' = read_fahrenheit(r) /\ dl_rd' = r
    /\ dl_pc' = "l123_ret"
    /\ UNCHANGED <<mode, set_point, redLED, blueLED, lcd, ser>>
    /\ UNCHANGED <<counter, toggle, dl_temp, dl_cmd, emitted, cb_vars, sp_vars, dl_hist, main_vars>>

\* line 123: temp = the returned last_temp
DlUartReadRet ==
    /\ dl_pc = "l123_ret"
    /\ dl_temp' = last_temp
    /\ dl_rd' = NoRead
    /\ dl_pc' = "l124"
    /\ UNCHANGED <<shared, counter, toggle, dl_cmd, emitted, cb_vars, sp_vars, dl_hist, main_vars>>

\* A handler around send_uart that passes the exception by.
send_uart_swallows ==
    /\ dl_pc = "l124"
    /\ dl_temp' = 0
    /\ emitted' = emitted \cup {counter}
    /\ dl_pc' = "l141"
    /\ \/ /\ ser_open
          /\ ser' = UartMsg(mode, dl_temp, set_point)
          /\ UNCHANGED ser_err
       \/ /\ ser_err' = TRUE
          /\ UNCHANGED ser
    /\ UNCHANGED <<mode, set_point, last_temp, redLED, blueLED, lcd>>
    /\ UNCHANGED <<counter, toggle, dl_rd, dl_cmd, dl_seen, cb_vars, sp_vars, main_vars>>

\* lines 124-125: ser.write returns, or it raises (always, on a closed port);
\* nothing in send_uart or display_loop catches it, and the thread ends
send_uart ==
    /\ dl_pc = "l124"
    /\ dl_temp' = 0
    /\ emitted' = emitted \cup {counter}
    /\ \/ /\ ser_open
          /\ ser' = UartMsg(mode, dl_temp, set_point)
          /\ dl_pc' = "l141"
          /\ UNCHANGED ser_err
       \/ /\ ser_err' = TRUE
          /\ dl_pc' = "dead"
          /\ UNCHANGED ser
    /\ UNCHANGED <<mode, set_point, last_temp, redLED, blueLED, lcd>>
    /\ UNCHANGED <<counter, toggle, dl_rd, dl_cmd, dl_seen, cb_vars, sp_vars, main_vars>>

\* The flip tested before the increment.
DlEndTick_early(maxTicks) ==
    /\ dl_pc = "l141"
    /\ counter < maxTicks
    /\ counter' = counter + 1
    /\ toggle' = IF counter % FlipPeriod = 0 THEN ~toggle ELSE toggle
    /\ dl_pc' = "l133"
    /\ UNCHANGED <<shared, dl_rd, dl_temp, dl_cmd, emitted, cb_vars, sp_vars, dl_hist, main_vars>>

\* lines 141-144
DlEndTick(maxTicks) ==
    /\ dl_pc = "l141"
    /\ counter < maxTicks
    /\ counter' = counter + 1
    /\ toggle' = IF (counter + 1) % FlipPeriod = 0 THEN ~toggle ELSE toggle
    /\ dl_pc' = "l133"
    /\ UNCHANGED <<shared, dl_rd, dl_temp, dl_cmd, emitted, cb_vars, sp_vars, dl_hist, main_vars>>

display_loop(maxTicks) ==
    \/ DlRead \/ DlReadRet \/ DlUpdate \/ DlCheck
    \/ DlClRead \/ DlClReadRet \/ DlClBranch \/ DlClDrive
    \/ DlUartRead \/ DlUartReadRet \/ send_uart
    \/ DlEndTick(maxTicks)

---------------------------------------------------------------------------
\* The button callback thread: btn_toggle, btn_inc and btn_dec, one callback
\* at a time.  thermo.cycle() runs the exit hook of the current state, moves
\* the machine to the target state and then runs the target's enter hook.

\* on_exit_heat (line 90), on_exit_cool (line 97); off has no exit hook
on_exit_red(m)  == IF m = "heat" THEN "off" ELSE redLED
on_exit_blue(m) == IF m = "cool" THEN "off" ELSE blueLED

\* lines 159-162: thermo.cycle() starts and runs the exit hook of the current
\* state; in a state the event has no transition from, it raises
\* TransitionNotAllowed and the handler passes
btn_toggle(maxPresses) ==
    /\ cb_pc = "idle"
    /\ nToggle + nInc + nDec < maxPresses
    /\ IF mode \in cycle_sources
       THEN /\ redLED' = on_exit_red(mode)
            /\ blueLED' = on_exit_blue(mode)
            /\ cb_pc' = "l78"
            /\ UNCHANGED nToggle
       ELSE /\ nToggle' = nToggle + 1
            /\ UNCHANGED <<redLED, blueLED, cb_pc>>
    /\ UNCHANGED <<mode, set_point, last_temp, lcd, ser>>
    /\ UNCHANGED <<cb_rd, cb_temp, cb_cmd, dl_vars, sp_vars, main_vars>>

\* The machine moved to the target state with no enter hook run.
CbActivate_no_hook ==
    /\ cb_pc = "l78"
    /\ mode' = cycle(mode)
    /\ cb_pc' = "idle"
    /\ nToggle' = nToggle + 1
    /\ UNCHANGED <<set_point, last_temp, redLED, blueLED, lcd, ser>>
    /\ UNCHANGED <<cb_rd, cb_temp, cb_cmd, dl_vars, sp_vars, main_vars>>

\* line 78: the machine moves to the target state; its enter hook is next
CbActivate ==
    /\ cb_pc = "l78"
    /\ mode' = cycle(mode)
    /\ cb_pc' = IF cycle(mode) = "off" THEN "l82" ELSE "l109"
    /\ UNCHANGED <<set_point, last_temp, redLED, blueLED, lcd, ser>>
    /\ UNCHANGED <<cb_rd, cb_temp, cb_cmd, nToggle, dl_vars, sp_vars, main_vars>>

\* An on_enter_off that also puts the set point back to its default.
CbOffRed_resets ==
    /\ cb_pc = "l82"
    /\ redLED' = "off"
    /\ set_point' = DefaultSetPoint
    /\ cb_pc' = "l83"
    /\ UNCHANGED <<mode, last_temp, blueLED, lcd, ser>>
    /\ UNCHANGED <<cb_rd, cb_temp, cb_cmd, nToggle, dl_vars, sp_vars, main_vars>>

\* on_enter_off, line 82
CbOffRed ==
    /\ cb_pc = "l82"
    /\ redLED' = "off"
    /\ cb_pc' = "l83"
    /\ UNCHANGED <<mode, set_point, last_temp, blueLED, lcd, ser>>
    /\ UNCHANGED <<cb_rd, cb_temp, cb_cmd, nToggle, dl_vars, sp_vars, main_vars>>

\* on_enter_off, line 83; btn_toggle returns
CbOffBlue ==
    /\ cb_pc = "l83"
    /\ blueLED' = "off"
    /\ cb_pc' = "idle"
    /\ nToggle' = nToggle + 1
    /\ UNCHANGED <<mode, set_point, last_temp, redLED, lcd, ser>>
    /\ UNCHANGED <<cb_rd, cb_temp, cb_cmd, dl_vars, sp_vars, main_vars>>

\* on_enter_heat (line 87), on_enter_cool (line 94) -> control_led, line 109,
\* inside read_fahrenheit: lines 101-105
CbClRead ==
    /\ cb_pc = "l109"
    /\ \E r \in Sensor : last_temp' = read_fahrenheit(r) /\ cb_rd' = r
    /\ cb_pc' = "l109_ret"
    /\ UNCHANGED <<mode, set_point, redLED, blueLED, lcd, ser>>
    /\ UNCHANGED <<cb_temp, cb_cmd, nToggle, dl_vars, sp_vars, main_vars>>

\* line 109: read_fahrenheit returns last_temp (line 106)
CbClReadRet ==
    /\ cb_pc = "l109_ret"
    /\ cb_temp' = last_temp
    /\ cb_rd' = NoRead
    /\ cb_pc' = "l111"
    /\ UNCHANGED <<shared, cb_cmd, nToggle, dl_vars, sp_vars, main_vars>>

\* lines 109-117: floor, and the tests of current_state.id and set_point
CbClBranch ==
    /\ cb_pc = "l111"
    /\ cb_cmd' = control_led(mode, cb_temp, set_point)
    /\ cb_temp' = 0
    /\ cb_pc' = "l113"
    /\ UNCHANGED <<shared, cb_rd, nToggle, dl_vars, sp_vars, main_vars>>

\* lines 113, 115, 118, 120; btn_toggle returns
CbClDrive ==
    /\ cb_pc = "l113"
    /\ redLED' = RedAfter(cb_cmd)
    /\ blueLED' = BlueAfter(cb_cmd)
    /\ cb_cmd' = "none"
    /\ cb_pc' = "idle"
    /\ nToggle' = nToggle + 1
    /\ UNCHANGED <<mode, set_point, last_temp, lcd, ser>>
    /\ UNCHANGED <<cb_rd, cb_temp, dl_vars, sp_vars, main_vars>>

\* An increase that stops at the default set point.
btn_inc_clamped(maxPresses) ==
    /\ cb_pc = "idle"
    /\ inc_reg = <<>> /\ dec_reg = <<>>
    /\ nToggle + nInc + nDec < maxPresses
    /\ set_point' = IF set_point >= DefaultSetPoint THEN set_point ELSE set_point + 1
    /\ nInc' = nInc + 1
    /\ UNCHANGED <<mode, last_temp, redLED, blueLED, lcd, ser>>
    /\ UNCHANGED <<inc_reg, dec_reg, nDec, dl_vars, cb_vars, main_vars>>

\* line 165, run by the callback thread: nothing else writes set_point
btn_inc(maxPresses) ==
    /\ cb_pc = "idle"
    /\ inc_reg = <<>> /\ dec_reg = <<>>
    /\ nToggle + nInc + nDec < maxPresses
    /\ set_point' = set_point + 1
    /\ nInc' = nInc + 1
    /\ UNCHANGED <<mode, last_temp, redLED, blueLED, lcd, ser>>
    /\ UNCHANGED <<inc_reg, dec_reg, nDec, dl_vars, cb_vars, main_vars>>

\* line 169, run by the callback thread
btn_dec(maxPresses) ==
    /\ cb_pc = "idle"
    /\ inc_reg = <<>> /\ dec_reg = <<>>
    /\ nToggle + nInc + nDec < maxPresses
    /\ set_point' = set_point - 1
    /\ nDec' = nDec + 1
    /\ UNCHANGED <<mode, last_temp, redLED, blueLED, lcd, ser>>
    /\ UNCHANGED <<inc_reg, dec_reg, nInc, dl_vars, cb_vars, main_vars>>

toggling(maxPresses) ==
    \/ btn_toggle(maxPresses) \/ CbActivate \/ CbOffRed \/ CbOffBlue
    \/ CbClRead \/ CbClReadRet \/ CbClBranch \/ CbClDrive

callbacks(maxPresses) ==
    \/ toggling(maxPresses) \/ btn_inc(maxPresses) \/ btn_dec(maxPresses)

---------------------------------------------------------------------------
\* btn_inc and btn_dec each in a context of its own: line 165 and line 169
\* are a load of thermo.set_point, an add and a store.

\* line 165: load
IncLoad(maxPresses) ==
    /\ inc_reg = <<>>
    /\ nToggle + nInc + nDec + Len(dec_reg) < maxPresses
    /\ inc_reg' = <<set_point>>
    /\ UNCHANGED <<shared, dec_reg, nInc, nDec, dl_vars, cb_vars, main_vars>>

\* line 165: add and store
IncStore ==
    /\ inc_reg # <<>>
    /\ set_point' = inc_reg[1] + 1
    /\ inc_reg' = <<>>
    /\ nInc' = nInc + 1
    /\ UNCHANGED <<mode, last_temp, redLED, blueLED, lcd, ser>>
    /\ UNCHANGED <<dec_reg, nDec, dl_vars, cb_vars, main_vars>>

\* line 169: load
DecLoad(maxPresses) ==
    /\ dec_reg = <<>>
    /\ nToggle + nInc + nDec + Len(inc_reg) < maxPresses
    /\ dec_reg' = <<set_point>>
    /\ UNCHANGED <<shared, inc_reg, nInc, nDec, dl_vars, cb_vars, main_vars>>

\* line 169: subtract and store
DecStore ==
    /\ dec_reg # <<>>
    /\ set_point' = dec_reg[1] - 1
    /\ dec_reg' = <<>>
    /\ nDec' = nDec + 1
    /\ UNCHANGED <<mode, last_temp, redLED, blueLED, lcd, ser>>
    /\ UNCHANGED <<inc_reg, nInc, dl_vars, cb_vars, main_vars>>

---------------------------------------------------------------------------
\* The main thread: lines 178-185.

\* lines 179-181: KeyboardInterrupt is raised in the main thread during sleep
MainInterrupt ==
    /\ main_pc = "l180"
    /\ main_pc' = "l182"
    /\ UNCHANGED <<shared, dl_vars, cb_vars, sp_vars, ser_open, cleanup>>

\* line 182: display.cleanup(), which is lcd.clear() (line 66)
MainDisplayCleanup ==
    /\ main_pc = "l182"
    /\ lcd' = ""
    /\ cleanup' = Append(cleanup, "display")
    /\ main_pc' = "l183"
    /\ UNCHANGED <<mode, set_point, last_temp, redLED, blueLED, ser>>
    /\ UNCHANGED <<dl_vars, cb_vars, sp_vars, ser_open>>

\* The red LED turned off and the rest of the handler left out.
MainRedOff_last ==
    /\ main_pc = "l183"
    /\ redLED' = "off"
    /\ cleanup' = Append(cleanup, "red")
    /\ main_pc' = "l186"
    /\ UNCHANGED <<mode, set_point, last_temp, blueLED, lcd, ser>>
    /\ UNCHANGED <<dl_vars, cb_vars, sp_vars, ser_open>>

\* line 183: redLED.off()
MainRedOff ==
    /\ main_pc = "l183"
    /\ redLED' = "off"
    /\ cleanup' = Append(cleanup, "red")
    /\ main_pc' = "l184"
    /\ UNCHANGED <<mode, set_point, last_temp, blueLED, lcd, ser>>
    /\ UNCHANGED <<dl_vars, cb_vars, sp_vars, ser_open>>

\* line 184: blueLED.off()
MainBlueOff ==
    /\ main_pc = "l184"
    /\ blueLED' = "off"
    /\ cleanup' = Append(cleanup, "blue")
    /\ main_pc' = "l185"
    /\ UNCHANGED <<mode, set_point, last_temp, redLED, lcd, ser>>
    /\ UNCHANGED <<dl_vars, cb_vars, sp_vars, ser_open>>

\* line 185: ser.close()
MainSerClose ==
    /\ main_pc = "l185"
    /\ ser_open' = FALSE
    /\ cleanup' = Append(cleanup, "serial")
    /\ main_pc' = "l186"
    /\ UNCHANGED <<shared, dl_vars, cb_vars, sp_vars>>

\* The end of the script: the process exits, and the daemon thread of
\* display_loop (line 147) and the callback thread end with it.
MainExit ==
    /\ main_pc = "l186"
    /\ main_pc' = "exit"
    /\ dl_pc' = "killed"
    /\ cb_pc' = "killed"
    /\ UNCHANGED <<shared, counter, toggle, dl_rd, dl_temp, dl_cmd, emitted, dl_hist>>
    /\ UNCHANGED <<cb_rd, cb_temp, cb_cmd, nToggle, sp_vars, ser_open, cleanup>>

main ==
    \/ MainInterrupt \/ MainDisplayCleanup \/ MainRedOff \/ MainBlueOff
    \/ MainSerClose \/ MainExit

---------------------------------------------------------------------------
\* The program with its callbacks run one at a time by the callback thread,
\* MaxPresses button presses in all.
Next == display_loop(MaxTicks) \/ callbacks(MaxPresses)
Spec == Init /\ [][Next]_vars

\* The same program followed over a telemetry period, with LongPresses button
\* presses in all.
NextLong == display_loop(LongTicks) \/ callbacks(LongPresses)
SpecLong == Init /\ [][NextLong]_vars

\* The display loop and the toggle callback with btn_inc and btn_dec in
\* asynchronous contexts.
NextAsync ==
    \/ display_loop(AsyncTicks)
    \/ toggling(AsyncPresses)
    \/ IncLoad(AsyncPresses) \/ IncStore \/ DecLoad(AsyncPresses) \/ DecStore
SpecAsync == Init /\ [][NextAsync]_vars

\* The display loop, the toggle callback and the main thread, which is
\* interrupted at some moment and runs its handler.
NextShutdown == display_loop(ShutTicks) \/ toggling(ShutPresses) \/ main
SpecShutdown == Init /\ [][NextShutdown]_vars

\* The display loop and the toggle callback, with the daemon thread of
\* display_loop given the processor again and again: a step it can take
\* (a call that returns, the end of sleep(1)) is taken in the end.
NextLive == display_loop(LiveTicks) \/ toggling(LivePresses)
SpecLive == Init /\ [][NextLive]_vars /\ WF_vars(display_loop(LiveTicks))

---------------------------------------------------------------------------
\* Properties.

Ring(n) == CASE n = 0 -> "off" [] n = 1 -> "heat" [] n = 2 -> "cool"

\* C1: once N toggle events have been handled to completion, whatever ticks,
\* increases and decreases came in between, the mode is ring position
\* N mod 3 (Off = 0, Heat = 1, Cool = 2).
C1_ModeIsTogglesMod3 == cb_pc = "idle" => mode = Ring(nToggle % 3)

C1_Witness ==
    cb_pc = "idle" /\ nToggle = 3 /\ mode = "off" /\ counter >= 1 /\ nInc = 1

\* C2: with the handlers run one at a time, after N increases and M
\* decreases in any order the set point is 72 + N - M; nothing clamps it.
C2_SetPointIsSum == set_point = DefaultSetPoint + nInc - nDec

C2_Witness ==
    nInc = 2 /\ nDec = 1 /\ set_point = 73 /\ nToggle = 1 /\ counter >= 1

\* C3: whenever the mode is Off and no toggle is in progress, both LEDs are
\* off, under every interleaving of the display loop with the toggle callback.
C3_OffMeansBothOff ==
    (mode = "off" /\ cb_pc = "idle") => (redLED = "off" /\ blueLED = "off")

\* C4: outside a toggle in progress, in Heat the blue LED is off and in Cool
\* the red LED is off, under every interleaving of the display loop with the
\* toggle callback.
C4_OtherActuatorOff ==
    cb_pc = "idle" =>
        /\ mode = "heat" => blueLED = "off"
        /\ mode = "cool" => redLED = "off"

\* What C5 asks of the command chosen for mode m, returned temperature t
\* (hundredths) and set point sp: floor(t / 100) < sp is t < 100 * sp, and
\* floor(t / 100) > sp is t >= 100 * (sp + 1).
C5_Chosen(m, t, sp, cmd) ==
    /\ m = "heat" => /\ cmd \in {"red_pulse", "red_on"}
                     /\ cmd = "red_pulse" <=> t < 100 * sp
    /\ m = "cool" => /\ cmd \in {"blue_pulse", "blue_on"}
                     /\ cmd = "blue_pulse" <=> t >= 100 * (sp + 1)

C5_Driven(cmd) ==
    /\ cmd = "red_pulse" => redLED' = "pulse"
    /\ cmd = "red_on" => redLED' = "on"
    /\ cmd = "blue_pulse" => blueLED' = "pulse"
    /\ cmd = "blue_on" => blueLED' = "on"

\* C5: every evaluation of control_led in Heat tells the red LED to pulse if
\* floor(temperature) < set point and to be steadily on otherwise; in Cool it
\* tells the blue LED to pulse if floor(temperature) > set point and to be
\* steadily on otherwise.  Equality gives steady-on in both modes.
C5_ActuatorPolicy ==
    [][ /\ (dl_pc = "l111" /\ dl_pc' = "l113") =>
               C5_Chosen(mode, dl_temp, set_point, dl_cmd')
        /\ (dl_pc = "l113" /\ dl_pc' # "l113") => C5_Driven(dl_cmd)
        /\ (cb_pc = "l111" /\ cb_pc' = "l113") =>
               C5_Chosen(mode, cb_temp, set_point, cb_cmd')
        /\ (cb_pc = "l113" /\ cb_pc' # "l113") => C5_Driven(cb_cmd) ]_vars

\* Heat, no press of increase or decrease, no successful sensor read yet:
\* floor(72.0) = 72 = set point, and the branch taken is steady-on.
C5_Witness ==
    /\ dl_pc = "l113" /\ dl_cmd = "red_on" /\ mode = "heat"
    /\ last_temp = FallbackTemp /\ set_point = DefaultSetPoint
    /\ nInc = 0 /\ nDec = 0

\* C6: with btn_inc and btn_dec in contexts of their own, once N increases
\* and M decreases have completed the set point is 72 + N - M.
C6_NoLostUpdate ==
    (inc_reg = <<>> /\ dec_reg = <<>>) => set_point = DefaultSetPoint + nInc - nDec

DlReadPcs == {"l133", "l109", "l123"}
DlRetPcs  == {"l133_ret", "l109_ret", "l123_ret"}

\* C7: read_fahrenheit never fails: a failed sensor read leaves last_temp as
\* it was, a successful one stores the new value, and in both cases the call
\* goes on to return what last_temp holds; nothing else writes last_temp,
\* which starts as 72.0.
C7_ReadNeverFails ==
    [][ /\ (dl_pc \in DlReadPcs /\ dl_pc' # dl_pc) =>
               /\ dl_pc' \in DlRetPcs
               /\ last_temp' = IF dl_rd'.ok THEN CtoF(dl_rd'.c) ELSE last_temp
        /\ (dl_pc \in DlRetPcs /\ dl_pc' # dl_pc) =>
               /\ dl_pc' \in {"l134", "l111", "l124"}
               /\ dl_temp' = last_temp /\ last_temp' = last_temp
        /\ (cb_pc = "l109" /\ cb_pc' # cb_pc) =>
               /\ cb_pc' = "l109_ret"
               /\ last_temp' = IF cb_rd'.ok THEN CtoF(cb_rd'.c) ELSE last_temp
        /\ (cb_pc = "l109_ret" /\ cb_pc' # cb_pc) =>
               /\ cb_pc' = "l111"
               /\ cb_temp' = last_temp /\ last_temp' = last_temp
        /\ last_temp' # last_temp =>
               \/ dl_pc \in DlReadPcs /\ dl_pc' # dl_pc /\ dl_rd'.ok
               \/ cb_pc = "l109" /\ cb_pc' # cb_pc /\ cb_rd'.ok ]_vars

\* A read that has just failed, after an earlier read stored 71.96: the cache
\* still holds 71.96, which the call is about to return.
C7_Witness ==
    dl_pc = "l109_ret" /\ dl_rd = OSError /\ last_temp = 7196 /\ cb_pc = "idle"

\* C8: counting ticks from 0, send_uart writes during tick t exactly when
\* t mod 30 = 0, whatever the mode and whatever buttons were pressed.
C8_TelemetryEvery30 ==
    emitted = {t \in 0..counter :
                  t % 30 = 0 /\ (t < counter \/ dl_pc \in {"l141", "dead"})}

C8_Witness ==
    counter = 30 /\ dl_pc = "l141" /\ emitted = {0, 30} /\ mode = "cool"

\* C9: counting ticks from 0, line 2 shows the mode and set point during
\* ticks 0..4, the temperature during ticks 5..9, and so on in blocks of 5,
\* whatever the mode and whatever buttons were pressed.
C9_Line2Alternates ==
    [][ (dl_pc = "l134" /\ dl_pc' = "l137") =>
            lcd' = IF (counter \div 5) % 2 = 0
                   THEN upper(mode) \o " " \o ToString(set_point) \o "F"
                   ELSE "Temp:" \o Fmt1(dl_temp) \o "F" ]_vars

C9_Witness ==
    counter = 5 /\ dl_pc = "l137" /\ lcd = "Temp:73.4F" /\ nToggle = 1

\* The tenth nearest to h hundredths.
C10_Tenths(h) ==
    CHOOSE k \in (h \div 10)..(h \div 10 + 1) : 10 * k - 5 <= h /\ h < 10 * k + 5

C10_Line(m, h, sp) ==
    m \o "," \o ToString(C10_Tenths(h) \div 10) \o "." \o ToString(C10_Tenths(h) % 10)
      \o "," \o ToString(sp) \o "\n"

\* C10: a telemetry line is "<mode>,<temp>,<setpoint>\n" with the lowercase
\* mode name, the temperature rounded to one fractional digit and the integer
\* set point, all as of the write; with Heat, 71.96 and 72 the line is
\* "heat,72.0,72\n" while control_led, which floors, chooses pulsing.
C10_TelemetryLine ==
    [][ /\ (dl_pc = "l124" /\ dl_pc' = "l141") =>
               /\ mode \in {"off", "heat", "cool"}
               /\ ser' = C10_Line(mode, dl_temp, set_point)
               /\ (mode = "heat" /\ dl_temp = 7196 /\ set_point = 72) =>
                      ser' = "heat,72.0,72\n"
        /\ (dl_pc = "l111" /\ dl_pc' = "l113"
              /\ mode = "heat" /\ dl_temp = 7196 /\ set_point = 72) =>
               dl_cmd' = "red_pulse" ]_vars

C10_Witness ==
    /\ ser = "heat,72.0,72\n" /\ redLED = "pulse" /\ mode = "heat"
    /\ set_point = 72 /\ last_temp = 7196 /\ dl_pc = "l141" /\ cb_pc = "idle"

\* C11: after KeyboardInterrupt the main thread clears the display, turns the
\* red LED off, turns the blue LED off and closes the serial port, in that
\* order and each exactly once, and only then does the process exit.
CleanupOrder == <<"display", "red", "blue", "serial">>
C11_CleanupInOrder ==
    /\ \E n \in 0..Len(CleanupOrder) : cleanup = SubSeq(CleanupOrder, 1, n)
    /\ main_pc = "l180" => cleanup = <<>>
    /\ main_pc \in {"l186", "exit"} => cleanup = CleanupOrder
    /\ ser_open <=> Len(cleanup) < Len(CleanupOrder)
C11_Witness ==
    main_pc = "exit" /\ cleanup = CleanupOrder /\ ~ser_open /\ mode = "cool"

\* C12: a toggle into heat or cool runs control_led within the same handler,
\* after the mode is updated: when the handler returns with mode heat the red
\* LED has been told to pulse or to stay on, and with mode cool the blue one.
LedActive == {"pulse", "on"}
C12_EnterDrives ==
    [][/\ (cb_pc = "l78" /\ cb_pc' # "l78" /\ mode' \in {"heat", "cool"})
            => (cb_pc' = "l109" /\ nToggle' = nToggle)
       /\ nToggle' # nToggle
            => /\ cb_pc' = "idle"
               /\ mode' = mode
               /\ mode' = "heat" => redLED' \in LedActive
               /\ mode' = "cool" => blueLED' \in LedActive]_vars
C12_Witness ==
    /\ cb_pc = "idle" /\ nToggle = 1 /\ mode = "heat" /\ redLED = "pulse"
    /\ dl_pc = "l133" /\ counter = 0

\* C13: a tick that sees heat or cool at line 137 runs control_led again and
\* a tick that sees off makes no LED call; btn_inc and btn_dec make no LED
\* call; and when control_led of a tick runs with no button event in between
\* (none handled and none in progress since it got its temperature), it
\* leaves the LED of the mode as the policy gives it for floor of the cached
\* temperature and the set point as they are at that moment.
C13_Policy(m, t, sp) ==
    /\ m = "heat" => redLED' = IF floor(t) < sp THEN "pulse" ELSE "on"
    /\ m = "cool" => blueLED' = IF floor(t) > sp THEN "pulse" ELSE "on"
C13_TickReevaluates ==
    [][/\ (dl_pc = "l137" /\ dl_pc' # "l137")
            => (mode \in {"heat", "cool"} <=> dl_pc' = "l109")
       /\ (dl_pc' # dl_pc /\ (redLED' # redLED \/ blueLED' # blueLED))
            => dl_pc = "l113"
       /\ (nInc' # nInc \/ nDec' # nDec)
            => (redLED' = redLED /\ blueLED' = blueLED)
       /\ (dl_pc = "l113" /\ dl_pc' # "l113" /\ cb_pc = "idle"
             /\ dl_seen = nToggle + nInc + nDec)
            => C13_Policy(mode, last_temp, set_point)]_vars
C13_Witness ==
    /\ counter = 1 /\ dl_pc = "l141" /\ cb_pc = "idle" /\ mode = "heat"
    /\ nInc = 0 /\ nDec = 1 /\ set_point = 71 /\ last_temp = 7196 /\ redLED = "on"

\* C14: the machine is always in a state the cycle event has a transition
\* from; no toggle is handled by the TransitionNotAllowed branch (a toggle is
\* only counted as handled at the end of an enter hook); and the state change
\* of every toggle takes the mode to its successor in off, heat, cool, off.
C14_Successor(m) == CASE m = "off" -> "heat" [] m = "heat" -> "cool" [] m = "cool" -> "off"
C14_ToggleAlwaysMoves ==
    /\ [](mode \in cycle_sources)
    /\ [][/\ (cb_pc = "idle" /\ cb_pc' # "idle") => cb_pc' = "l78"
          /\ nToggle' # nToggle => cb_pc \in {"l83", "l113"}
          /\ (cb_pc = "l78" /\ cb_pc' # "l78")
               => (mode' = C14_Successor(mode) /\ mode' # mode)]_vars
C14_Witness ==
    cb_pc = "idle" /\ nToggle = 4 /\ mode = "heat" /\ redLED \in LedActive

\* C15: control_led is idempotent: its LED call, made once more on the state
\* it has just produced, changes neither LED (the command is a function of
\* mode, floor of the temperature and the set point alone), and no step of
\* control_led changes the mode, the set point or the tick counter.
Commands == {control_led(m, t, sp) : m \in cycle_sources, t \in {0, 100}, sp \in {0, 1}}
ClPcs == {"l109", "l109_ret", "l111", "l113"}
C15_Idempotent ==
    [][/\ \A c \in Commands :
            (\/ (dl_pc = "l113" /\ dl_pc' # "l113" /\ dl_cmd = c)
             \/ (cb_pc = "l113" /\ cb_pc' # "l113" /\ cb_cmd = c))
            => (RedAfter(c)' = redLED' /\ BlueAfter(c)' = blueLED')
       /\ (\/ (dl_pc \in ClPcs /\ dl_pc' # dl_pc)
           \/ (cb_pc \in ClPcs /\ cb_pc' # cb_pc))
            => (mode' = mode /\ set_point' = set_point /\ counter' = counter)]_vars
C15_Witness ==
    /\ counter = 1 /\ dl_pc = "l141" /\ mode = "cool" /\ cb_pc = "idle"
    /\ nToggle = 2 /\ blueLED = "pulse" /\ last_temp = 7340 /\ set_point = 72
    /\ emitted = {0}

\* C16: a step of the display loop changes neither mode nor set point; a step
\* that handles an increase or a decrease changes neither the mode nor an
\* LED; a step of the toggle handler does not change the set point; and the
\* mode changes only in the state change of a toggle, to its ring successor.
C16_Frame ==
    [][/\ dl_vars' # dl_vars => (mode' = mode /\ set_point' = set_point)
       /\ (nInc' # nInc \/ nDec' # nDec)
            => (mode' = mode /\ redLED' = redLED /\ blueLED' = blueLED)
       /\ cb_vars' # cb_vars => set_point' = set_point
       /\ set_point' # set_point => (nInc' # nInc \/ nDec' # nDec)
       /\ mode' # mode => (cb_pc = "l78" /\ mode' = C14_Successor(mode))]_vars
C16_Witness ==
    /\ counter = 1 /\ dl_pc = "l133" /\ cb_pc = "idle" /\ mode = "off"
    /\ nToggle = 3 /\ nInc = 0 /\ nDec = 1 /\ set_point = 71

\* C17: with the display loop thread scheduled fairly and sensor reads free
\* to fail, tick k is followed by tick k + 1 unless a ser.write has raised.
C17_TickFollows ==
    \A k \in 0..(LiveTicks - 1) : (counter = k) ~> (counter = k + 1 \/ ser_err)
C17_Witness ==
    /\ counter = LiveTicks /\ last_temp = FallbackTemp /\ ~ser_err
    /\ mode = "heat" /\ redLED = "on" /\ emitted = {0}

\* C18: a ser.write that raises is not handled in the tick: the display
\* loop thread ends there and takes no further step (no tick, no display
\* update, no telemetry, no LED call of its own), so the LEDs stay as last
\* told unless a toggle handler tells them otherwise; toggle, increase and
\* decrease are still handled.
C18_WriteFailureEndsLoop ==
    /\ [](ser_err => dl_pc = "dead")
    /\ []((ser_err /\ cb_pc = "idle" /\ nToggle + nInc + nDec < MaxPresses)
            => /\ ENABLED (btn_toggle(MaxPresses) /\ cb_pc' = "l78")
               /\ ENABLED (btn_inc(MaxPresses) /\ set_point' = set_point + 1)
               /\ ENABLED (btn_dec(MaxPresses) /\ set_point' = set_point - 1))
    /\ [][/\ ser_err => (dl_vars' = dl_vars /\ lcd' = lcd /\ ser' = ser)
          /\ (ser_err /\ (redLED' # redLED \/ blueLED' # blueLED))
               => cb_vars' # cb_vars
          /\ ser_err' # ser_err
               => (ser' = ser /\ redLED' = redLED /\ blueLED' = blueLED)]_vars
C18_Witness ==
    /\ ser_err /\ dl_pc = "dead" /\ counter = 0 /\ ser = "" /\ cb_pc = "idle"
    /\ blueLED = "on" /\ mode = "cool" /\ nToggle = 2 /\ nInc = 1 /\ set_point = 73

\* C19: the display loop cannot undo the cleanup: at the step on which the
\* process exits both LEDs are off and the display is clear, and ser.write is
\* never called on the closed port.
C19_CleanupHolds ==
    [][/\ (main_pc # "exit" /\ main_pc' = "exit")
            => (redLED' = "off" /\ blueLED' = "off" /\ lcd' = "")
       /\ emitted' # emitted => ser_open]_vars

\* C20: within one tick the temperature on the display and the temperature
\* control_led compares come from the same reading: in a tick that shows the
\* temperature, what read_fahrenheit returns to control_led is what the
\* display shows.
C20_OneReadingPerTick ==
    [][(dl_pc = "l109_ret" /\ dl_pc' = "l111" /\ toggle)
          => lcd = Line2(TRUE, dl_temp', mode, set_point)]_vars

=============================================================================
